---- MODULE Spec2Model ----
(***************************************************************************)
(* Speech-capture pipeline of reachy_mini_local_companion:                 *)
(*   stt/audio_processor.py  AudioProcessor (buffer, VAD, state machine)   *)
(*   stt/wake_word.py        WakeWordDetector                              *)
(*   stt/vosk_engine.py, stt/whisper_engine.py  recognition engines        *)
(*   stt/manager.py          STTManager, the coordinator                   *)
(*                                                                         *)
(* One action per public STTManager call.  An action is the whole call:    *)
(* process_audio includes wake-word gating, AudioProcessor.process_chunk,  *)
(* the synchronous transcription, the listener fan-out and the reset.      *)
(*                                                                         *)
(* Numbers.  Durations are Python floats; here a duration is a rational    *)
(* n / TimeDen seconds and is carried as its numerator n.  int(rate * d)   *)
(* is then (rate * n) \div TimeDen, truncation included.  A sample is      *)
(* named by its arrival index since the buffer was last cleared, so the    *)
(* buffer is a sequence of such indices and a frame of n samples arriving  *)
(* after k others is <<k+1, ..., k+n>>.  Amplitudes are in thousandths of  *)
(* full scale and one frame has one amplitude.                             *)
(***************************************************************************)
EXTENDS Integers, Sequences, FiniteSets, TLC

\* ------------------------------------------------------------------ bounds
\* Samples per second of the model (AudioProcessor's default, scaled down).
SampleRate == 100
\* Denominator of the durations: a duration n stands for n / TimeDen seconds.
TimeDen == 30
\* Longest listener list the model registers.
MaxListeners == 1
\* Longest listener list of the fan-out model.
MaxFanOut == 2

\* Most trigger phrases a detector of the detector model is given.
MaxWakeWords == 2

\* How many distinct ids generate_id hands out.
MaxGeneratedIds == 2

\* Speech chunks the timing scenario delivers before the silent ones.
ScenarioSpeechChunks == 40

\* ------------------------------------------------------- program constants
VadFrameMs == 30
\* The energy fallback's threshold 0.01, in thousandths of full scale.
EnergyThreshold == 10

None == "None"
\* self._engine is None / self._wake_word_detector is None / no event.
NoEngine   == [cls |-> None, model_name |-> None, is_loaded |-> FALSE]
NoDetector == [wake_words |-> <<>>, threshold |-> 0, is_loaded |-> FALSE]
NoEvent    == [text |-> None, wake_word |-> None]

AudioStates == {"idle", "wake_detected", "listening", "processing"}

EngineTypes == {"vosk-small", "vosk-large", "whisper-tiny", "whisper-base", "whisper-small"}

\* ------------------------------------------------------------ input sets
\* Engine kinds the control path asks for.
EngineChoices == {"vosk-small", "whisper-tiny"}
\* wake_word_threshold values, in hundredths.
ThresholdChoices == {50}
\* (silence_timeout_seconds, max_duration_seconds) numerators over TimeDen:
\* the pair the control-path model keeps, and the pairs the capture model
\* constructs the manager with and reconfigures it to.
ControlTimeouts == {<<1, 2>>}
TimeoutChoices == {<<1, 4>>, <<2, 4>>, <<2, 1>>}
\* Frame lengths in samples.
ChunkLens == {2, 4}
\* Frame amplitudes in thousandths: exactly the energy threshold, and loud.
AmpChoices == {10, 1000}
\* Scores the wake-word model reports, in hundredths.
ScoreChoices == {30, 50}
\* Texts an engine returns.
TextChoices == {"", "hi"}
ListenerIds == {"a"}
\* The callbacks of the fan-out model.
FanOutIds == {"a", "b"}

\* ------------------------------------------------------------- utilities
\* int(sample_rate * seconds) for a non-negative duration of numerator num.
IntSamples(rate, num) == (rate * num) \div TimeDen

Last(s) == s[Len(s)]

RECURSIVE Dedupe(_)
\* A sequence with runs of equal consecutive elements collapsed.
Dedupe(s) ==
    IF Len(s) <= 1 THEN s
    ELSE IF s[1] = s[2] THEN Dedupe(Tail(s))
         ELSE <<s[1]>> \o Dedupe(Tail(s))

RECURSIVE CountOf(_, _)
CountOf(s, v) ==
    IF s = <<>> THEN 0
    ELSE (IF s[1] = v THEN 1 ELSE 0) + CountOf(Tail(s), v)

\* collections.deque(maxlen).extend(items): append, dropping from the front.
DequeExtend(buf, maxlen, items) ==
    LET all == buf \o items
    IN  IF Len(all) <= maxlen THEN all
        ELSE SubSeq(all, Len(all) - maxlen + 1, Len(all))

\* The samples of a frame of n samples arriving after the ones in buf.
FrameSamples(buf, n) ==
    LET base == IF buf = <<>> THEN 0 ELSE Last(buf)
    IN  [i \in 1..n |-> base + i]

\* ------------------------------------------------------- AudioProcessor
VadFrameSize == (SampleRate * VadFrameMs) \div 1000

\* Number of complete VAD frames in a chunk of n samples:
\* range(0, n - frame + 1, frame).
NumVadFrames(n) == IF n < VadFrameSize THEN 0 ELSE n \div VadFrameSize

\* AudioProcessor.__init__
NewAudioProcessor(silence, maxdur, vadOk) ==
    [ max_duration_seconds    |-> maxdur,
      silence_timeout_seconds |-> silence,
      max_samples             |-> IntSamples(SampleRate, maxdur),
      maxlen                  |-> IntSamples(SampleRate, maxdur),
      buffer                  |-> <<>>,
      state                   |-> "idle",
      silence_samples         |-> 0,
      speech_samples          |-> 0,
      silence_threshold       |-> IntSamples(SampleRate, silence),
      vad                     |-> vadOk ]

\* AudioProcessor.set_state
SetState(ap, s) == [ap EXCEPT !.state = s]

\* AudioProcessor.is_speech.  chunk.vad is the verdict of the WebRTC VAD for
\* each complete frame of the chunk: "speech", "nonspeech" or "error".
IsSpeech(ap, chunk) ==
    IF ~ap.vad
    THEN chunk.amp > EnergyThreshold
    ELSE LET speech_frames == CountOf(chunk.vad, "speech")
             total_frames  == Len(chunk.vad) - CountOf(chunk.vad, "error")
         IN  IF total_frames > 0 THEN 2 * speech_frames > total_frames ELSE FALSE

\* The LISTENING branch of process_chunk.
ListenChunk(ap, chunk) ==
    LET buffered == [ap EXCEPT !.buffer =
                        DequeExtend(ap.buffer, ap.maxlen, FrameSamples(ap.buffer, chunk.n))]
        counted  == IF IsSpeech(ap, chunk)
                    THEN [buffered EXCEPT !.speech_samples = @ + chunk.n,
                                          !.silence_samples = 0]
                    ELSE [buffered EXCEPT !.silence_samples = @ + chunk.n]
        timed    == IF counted.silence_samples >= counted.silence_threshold
                    THEN SetState(counted, "processing")
                    ELSE counted
    IN  IF Len(timed.buffer) >= timed.max_samples
        THEN SetState(timed, "processing")
        ELSE timed

\* A WAKE_DETECTED branch that starts listening without buffering the frame.
WakeChunkDiscarding(ap, chunk) ==
    LET cleared == [ap EXCEPT !.buffer = <<>>,
                              !.silence_samples = 0,
                              !.speech_samples = 0]
    IN  SetState(cleared, "listening")

\* The WAKE_DETECTED branch of process_chunk.
WakeChunk(ap, chunk) ==
    LET cleared == [ap EXCEPT !.buffer = <<>>,
                              !.silence_samples = 0,
                              !.speech_samples = 0]
        started == SetState(cleared, "listening")
    IN  [started EXCEPT !.buffer = DequeExtend(<<>>, ap.maxlen, FrameSamples(<<>>, chunk.n)),
                        !.speech_samples = @ + chunk.n]

\* A process_chunk that buffers the frame while idle.
ProcessChunkBufferingIdle(ap, chunk) ==
    CASE ap.state = "idle"          ->
             [ap EXCEPT !.buffer = DequeExtend(ap.buffer, ap.maxlen,
                                               FrameSamples(ap.buffer, chunk.n))]
      [] ap.state = "wake_detected" -> WakeChunk(ap, chunk)
      [] ap.state = "listening"     -> ListenChunk(ap, chunk)
      [] ap.state = "processing"    -> ap

\* AudioProcessor.process_chunk
ProcessChunk(ap, chunk) ==
    CASE ap.state = "idle"          -> ap
      [] ap.state = "wake_detected" -> WakeChunk(ap, chunk)
      [] ap.state = "listening"     -> ListenChunk(ap, chunk)
      [] ap.state = "processing"    -> ap

\* A reset that leaves the silence counter alone.
ResetKeepingSilence(ap) ==
    SetState([ap EXCEPT !.buffer = <<>>, !.speech_samples = 0], "idle")

\* AudioProcessor.reset
Reset(ap) ==
    SetState([ap EXCEPT !.buffer = <<>>,
                        !.silence_samples = 0,
                        !.speech_samples = 0], "idle")

\* A wake-word notification that jumps straight to listening.
OnWakeWordDetectedDirect(ap) == SetState(ap, "listening")

\* AudioProcessor.on_wake_word_detected
OnWakeWordDetected(ap) == SetState(ap, "wake_detected")

\* AudioProcessor.on_transcription_complete
OnTranscriptionComplete(ap) == Reset(ap)

\* AudioProcessor.get_utterance
GetUtterance(ap) == ap.buffer

\* ----------------------------------------------------- WakeWordDetector
\* WakeWordDetector.__init__ as called by STTManager._create_wake_word_detector
NewWakeWordDetector(threshold) ==
    [ wake_words |-> <<"hey_jarvis">>,
      threshold  |-> threshold,
      is_loaded  |-> FALSE ]

\* What the openWakeWord model answers for one frame: it raises, or it
\* returns the scores of the configured wake words in their order.
Predictions ==
    {[raise |-> TRUE, scores |-> <<>>]} \cup
    { [raise |-> FALSE, scores |-> <<[word |-> "hey_jarvis", score |-> s]>>] :
      s \in ScoreChoices }

\* WakeWordDetector.detect
Detect(det, predict) ==
    IF ~det.is_loaded \/ predict.raise
    THEN [raised |-> TRUE, scores |-> <<>>]
    ELSE [raised |-> FALSE, scores |-> predict.scores]

RECURSIVE LastAtOrAbove(_, _)
\* A loop that keeps going: the last score >= threshold wins.
LastAtOrAbove(scores, threshold) ==
    IF scores = <<>> THEN None
    ELSE LET later == LastAtOrAbove(Tail(scores), threshold)
         IN  IF later # None THEN later
             ELSE IF scores[1].score >= threshold THEN scores[1].word
             ELSE None

RECURSIVE FirstAtOrAbove(_, _)
\* The loop of is_wake_word_detected: the first score >= threshold wins.
FirstAtOrAbove(scores, threshold) ==
    IF scores = <<>> THEN None
    ELSE IF scores[1].score >= threshold THEN scores[1].word
         ELSE FirstAtOrAbove(Tail(scores), threshold)

\* WakeWordDetector.is_wake_word_detected
IsWakeWordDetected(det, predict) ==
    LET d   == Detect(det, predict)
        hit == FirstAtOrAbove(d.scores, det.threshold)
    IN  [ raised   |-> d.raised,
          detected |-> ~d.raised /\ hit # None,
          word     |-> IF d.raised THEN None ELSE hit ]

\* WakeWordDetector.load_model / unload_model
DetectorLoaded(det)   == [det EXCEPT !.is_loaded = TRUE]
DetectorUnloaded(det) == [det EXCEPT !.is_loaded = FALSE]

\* ------------------------------------------------------------- engines
\* STTManager._create_engine: the engine class and model name of each kind.
CreateEngine(kind) ==
    CASE kind = "vosk-small"    -> [cls |-> "vosk",    model_name |-> "vosk-model-small-en-us", is_loaded |-> FALSE]
      [] kind = "vosk-large"    -> [cls |-> "vosk",    model_name |-> "vosk-model-en-us",       is_loaded |-> FALSE]
      [] kind = "whisper-tiny"  -> [cls |-> "whisper", model_name |-> "tiny.en",                is_loaded |-> FALSE]
      [] kind = "whisper-base"  -> [cls |-> "whisper", model_name |-> "base.en",                is_loaded |-> FALSE]
      [] kind = "whisper-small" -> [cls |-> "whisper", model_name |-> "small.en",               is_loaded |-> FALSE]

\* VoskSTTEngine / WhisperSTTEngine load_model and unload_model
EngineLoaded(eng)   == [eng EXCEPT !.is_loaded = TRUE]
EngineUnloaded(eng) == [eng EXCEPT !.is_loaded = FALSE]

ErrNotLoaded  == "Model not loaded. Call load_model() first."
ErrTranscribe == "transcription failed"
ErrLoad       == "model load failed"
ErrListener   == "listener failed"

\* What the recognition backend answers for one utterance.
Transcriptions ==
    {[raise |-> TRUE, text |-> ""]} \cup { [raise |-> FALSE, text |-> t] : t \in TextChoices }

\* VoskSTTEngine.transcribe / WhisperSTTEngine.transcribe
Transcribe(eng, outcome) ==
    IF ~eng.is_loaded THEN [raised |-> TRUE, error |-> ErrNotLoaded, text |-> ""]
    ELSE IF outcome.raise THEN [raised |-> TRUE, error |-> ErrTranscribe, text |-> ""]
    ELSE [raised |-> FALSE, error |-> None, text |-> outcome.text]

\* ------------------------------------------------------------ STTManager
\* STTConfig values.
ConfigsOf(enableds, kinds, timeouts) ==
    { [ enabled                 |-> e,
        engine                  |-> k,
        wake_word_enabled       |-> ww,
        wake_word_threshold     |-> th,
        silence_timeout_seconds |-> tm[1],
        max_duration_seconds    |-> tm[2] ] :
      e \in enableds, k \in kinds, ww \in BOOLEAN,
      th \in ThresholdChoices, tm \in timeouts }

\* The configurations of the control-path model: every combination of the
\* flags and engine kinds.
Configs == ConfigsOf(BOOLEAN, EngineChoices, ControlTimeouts)

\* The configurations of the capture model: an enabled pipeline on one
\* engine, with every timeout pair.
CaptureConfigs == ConfigsOf({TRUE}, {"vosk-small"}, TimeoutChoices)

\* STTManagerState()
NewManagerState ==
    [ enabled        |-> FALSE,
      model_loaded   |-> FALSE,
      last_transcript |-> "",
      last_wake_word |-> None,
      error          |-> None,
      listeners      |-> <<>> ]

\* STTManager.__init__
NewManager(cfg, vadOk) ==
    [ config   |-> cfg,
      engine   |-> IF cfg.enabled THEN CreateEngine(cfg.engine) ELSE NoEngine,
      detector |-> IF cfg.enabled /\ cfg.wake_word_enabled
                   THEN NewWakeWordDetector(cfg.wake_word_threshold) ELSE NoDetector,
      ap       |-> NewAudioProcessor(cfg.silence_timeout_seconds,
                                     cfg.max_duration_seconds, vadOk),
      st       |-> NewManagerState ]

\* STTManager.is_ready
IsReady(w) == w.st.enabled /\ w.st.model_loaded

\* STTManager.get_status
GetStatus(w) ==
    [ enabled           |-> w.st.enabled,
      engine            |-> w.config.engine,
      state             |-> w.ap.state,
      wake_word_enabled |-> w.config.wake_word_enabled,
      model_loaded      |-> w.st.model_loaded,
      last_transcript   |-> w.st.last_transcript,
      error             |-> w.st.error ]

\* What one call did, as its caller and its collaborators saw it: whether the
\* pipeline was ready, the frame length, the AudioStates passed through, what
\* was returned or raised, and which collaborators were invoked.
NoCall(op) ==
    [ op          |-> op,
      ready       |-> FALSE,
      n           |-> 0,
      trace       |-> <<>>,
      ret         |-> None,
      text        |-> "",
      raisedIn    |-> None,
      scored      |-> FALSE,
      transcribed |-> FALSE,
      completed   |-> FALSE,
      notified    |-> <<>>,
      event       |-> NoEvent,
      unloaded    |-> {},
      created     |-> {} ]

RECURSIVE FanOutAborting(_, _)
\* A listener loop without the inner try/except: the first listener that
\* raises ends the loop and its exception escapes.
FanOutAborting(listeners, raisers) ==
    IF listeners = <<>> THEN [called |-> <<>>, escaped |-> FALSE]
    ELSE IF listeners[1] \in raisers THEN [called |-> <<listeners[1]>>, escaped |-> TRUE]
    ELSE LET rest == FanOutAborting(Tail(listeners), raisers)
         IN  [called |-> <<listeners[1]>> \o rest.called, escaped |-> rest.escaped]

RECURSIVE FanOut(_, _)
\* The listener loop of _transcribe_utterance: every listener is called in
\* list order; what one of raisers raises is caught and logged inside the
\* loop, so nothing escapes it.
FanOut(listeners, raisers) ==
    IF listeners = <<>> THEN [called |-> <<>>, escaped |-> FALSE]
    ELSE LET rest == FanOut(Tail(listeners), raisers)
         IN  [called |-> <<listeners[1]>> \o rest.called, escaped |-> rest.escaped]

\* An except branch that logs the exception and records nothing.
TranscribeFailedSilently(w, err) == w

\* The outer except branch of _transcribe_utterance: the error text is
\* recorded in the runtime state.
TranscribeFailed(w, err) == [w EXCEPT !.st.error = err]

\* STTManager._transcribe_utterance
TranscribeUtterance(w, outcome, raisers) ==
    LET quiet == [w |-> w, ret |-> None, text |-> "", raisedIn |-> None,
                  transcribed |-> FALSE, completed |-> FALSE,
                  notified |-> <<>>, event |-> NoEvent]
    IN  IF w.engine = NoEngine THEN quiet
        ELSE IF Len(GetUtterance(w.ap)) = 0
        THEN [quiet EXCEPT !.w = [w EXCEPT !.ap = OnTranscriptionComplete(w.ap)],
                           !.completed = TRUE]
        ELSE LET r     == Transcribe(w.engine, outcome)
                 done  == [w EXCEPT !.ap = OnTranscriptionComplete(w.ap),
                                    !.st.last_wake_word = None]
             IN  IF r.raised
                 THEN [quiet EXCEPT !.w = TranscribeFailed(done, r.error),
                                    !.raisedIn = "engine",
                                    !.transcribed = TRUE,
                                    !.completed = TRUE]
                 ELSE LET fan   == FanOut(w.st.listeners, raisers)
                          event == [text |-> r.text, wake_word |-> w.st.last_wake_word]
                          told  == [done EXCEPT !.st.last_transcript = r.text]
                      IN  IF fan.escaped
                          THEN [ w           |-> TranscribeFailed(told, ErrListener),
                                 ret         |-> None,
                                 text        |-> "",
                                 raisedIn    |-> "listener",
                                 transcribed |-> TRUE,
                                 completed   |-> TRUE,
                                 notified    |-> fan.called,
                                 event       |-> event ]
                          ELSE [ w           |-> told,
                                 ret         |-> "result",
                                 text        |-> r.text,
                                 raisedIn    |-> None,
                                 transcribed |-> TRUE,
                                 completed   |-> TRUE,
                                 notified    |-> fan.called,
                                 event       |-> event ]

\* A gate that is also entered during a capture.
GateOpenWhileListening(w) == w.ap.state \in {"idle", "listening"}

\* "if current_state == AudioState.IDLE" of process_audio: the wake-word
\* gate is entered only from idle.
GateOpen(w) == w.ap.state = "idle"

\* The wake-word gate of process_audio, entered when the AudioState is idle.
WakeGate(w, predict) ==
    IF w.detector # NoDetector /\ w.config.wake_word_enabled
    THEN LET r == IsWakeWordDetected(w.detector, predict)
         IN  IF r.raised THEN [w |-> w, raised |-> TRUE, scored |-> TRUE]
             ELSE IF r.detected
             THEN [ w |-> [w EXCEPT !.st.last_wake_word = r.word,
                                    !.ap = OnWakeWordDetected(w.ap)],
                    raised |-> FALSE, scored |-> TRUE ]
             ELSE [w |-> w, raised |-> FALSE, scored |-> TRUE]
    ELSE [ w |-> [w EXCEPT !.ap = OnWakeWordDetected(w.ap)],
           raised |-> FALSE, scored |-> FALSE ]

\* An early return that looks at the enabled flag only.
NotEnabled(w) == ~w.st.enabled

\* The early return of process_audio.
NotReady(w) == ~w.st.enabled \/ ~w.st.model_loaded

\* STTManager.process_audio
ProcessAudio(w, chunk, env) ==
    IF NotReady(w)
    THEN [w |-> w, call |-> [NoCall("process_audio") EXCEPT !.n = chunk.n,
                                                            !.trace = <<w.ap.state>>]]
    ELSE LET gate == IF GateOpen(w) THEN WakeGate(w, env.predict)
                     ELSE [w |-> w, raised |-> FALSE, scored |-> FALSE]
             base == [NoCall("process_audio") EXCEPT !.ready = TRUE,
                                                     !.n = chunk.n,
                                                     !.scored = gate.scored]
         IN  IF gate.raised
             THEN [w |-> w, call |-> [base EXCEPT !.ret = "raised",
                                                  !.raisedIn = "detector",
                                                  !.trace = <<w.ap.state>>]]
             ELSE LET fed == [gate.w EXCEPT !.ap = ProcessChunk(gate.w.ap, chunk)]
                  IN  IF fed.ap.state = "processing"
                      THEN LET t == TranscribeUtterance(fed, env.transcribe, env.raisers)
                           IN  [ w    |-> t.w,
                                 call |-> [base EXCEPT
                                     !.trace = Dedupe(<<w.ap.state, gate.w.ap.state,
                                                        fed.ap.state, t.w.ap.state>>),
                                     !.ret = t.ret,
                                     !.text = t.text,
                                     !.raisedIn = t.raisedIn,
                                     !.transcribed = t.transcribed,
                                     !.completed = t.completed,
                                     !.notified = t.notified,
                                     !.event = t.event] ]
                      ELSE [ w    |-> fed,
                             call |-> [base EXCEPT
                                     !.trace = Dedupe(<<w.ap.state, gate.w.ap.state,
                                                        fed.ap.state>>)] ]

\* An except branch that records the error and leaves model_loaded alone.
LoadFailedKeepingLoaded(w, err) == [w EXCEPT !.st.error = err]

\* The except branch of load_models.
LoadFailed(w, err) == [w EXCEPT !.st.error = err, !.st.model_loaded = FALSE]

\* STTManager.load_models.  engineLoad and wakeLoad say whether loading the
\* engine and the wake-word models fails ("fail") or not ("ok").
LoadModels(w, engineLoad, wakeLoad) ==
    LET failed(err) == LoadFailed(w, err)
    IN  IF w.engine # NoEngine /\ engineLoad = "fail"
        THEN [ w    |-> failed(ErrLoad),
               call |-> [NoCall("load_models") EXCEPT !.ret = "raised",
                                                      !.raisedIn = "engine"] ]
        ELSE LET e1 == IF w.engine # NoEngine THEN EngineLoaded(w.engine) ELSE w.engine
             IN  IF w.detector # NoDetector /\ wakeLoad = "fail"
                 THEN [ w    |-> [failed(ErrLoad) EXCEPT !.engine = e1],
                        call |-> [NoCall("load_models") EXCEPT !.ret = "raised",
                                                               !.raisedIn = "detector"] ]
                 ELSE [ w    |-> [w EXCEPT
                                    !.engine = e1,
                                    !.detector = IF w.detector # NoDetector
                                                 THEN DetectorLoaded(w.detector)
                                                 ELSE w.detector,
                                    !.st.model_loaded = TRUE,
                                    !.st.enabled = TRUE,
                                    !.st.error = None],
                        call |-> NoCall("load_models") ]

\* STTManager.unload_models
UnloadModels(w) ==
    [ w    |-> [w EXCEPT
                  !.engine = IF w.engine # NoEngine THEN EngineUnloaded(w.engine)
                             ELSE w.engine,
                  !.detector = IF w.detector # NoDetector
                               THEN DetectorUnloaded(w.detector) ELSE w.detector,
                  !.st.model_loaded = FALSE,
                  !.st.enabled = FALSE],
      call |-> [NoCall("unload_models") EXCEPT
                  !.unloaded = (IF w.engine # NoEngine THEN {"engine"} ELSE {})
                               \cup (IF w.detector # NoDetector THEN {"detector"} ELSE {})] ]

\* An engine swap that leaves model_loaded as it was.
SwapEngineKeepingLoaded(w, new_config) ==
    [w EXCEPT !.engine = CreateEngine(new_config.engine)]

\* The engine_changed branch of update_config: the old engine, if any, is
\* unloaded and dropped, a new one is constructed, model_loaded is cleared.
SwapEngine(w, new_config) ==
    [w EXCEPT !.engine = CreateEngine(new_config.engine),
              !.st.model_loaded = FALSE]

\* update_config up to the assignment of the AudioProcessor settings: the
\* new configuration and the two timeouts are written.
UpdateConfigWritten(w, new_config) ==
    [w EXCEPT !.config = new_config,
              !.ap.silence_timeout_seconds = new_config.silence_timeout_seconds,
              !.ap.max_duration_seconds = new_config.max_duration_seconds]

\* The rest of update_config, from "Recreate components if needed" on, with
\* the two flags computed before the configuration was written.
UpdateConfigRest(w1, new_config, engine_changed, wake_word_changed) ==
    LET w2 == IF engine_changed THEN SwapEngine(w1, new_config) ELSE w1
        w3 == IF wake_word_changed
              THEN IF new_config.wake_word_enabled
                   THEN [w2 EXCEPT !.detector =
                            NewWakeWordDetector(new_config.wake_word_threshold)]
                   ELSE [w2 EXCEPT !.detector = NoDetector]
              ELSE w2
        w4 == IF w3.detector # NoDetector
              THEN [w3 EXCEPT !.detector.threshold = new_config.wake_word_threshold]
              ELSE w3
    IN  [w4 EXCEPT !.st.enabled = new_config.enabled]

\* STTManager.update_config
UpdateConfig(w, new_config) ==
    LET engine_changed    == new_config.engine # w.config.engine
        wake_word_changed == new_config.wake_word_enabled # w.config.wake_word_enabled
        w1 == UpdateConfigWritten(w, new_config)
    IN  [ w    |-> UpdateConfigRest(w1, new_config, engine_changed, wake_word_changed),
          call |-> [NoCall("update_config") EXCEPT
                      !.ready = IsReady(w),
                      !.unloaded =
                          (IF engine_changed /\ w.engine # NoEngine THEN {"engine"} ELSE {})
                          \cup (IF wake_word_changed /\ ~new_config.wake_word_enabled
                                   /\ w.detector # NoDetector THEN {"detector"} ELSE {}),
                      !.created =
                          (IF engine_changed THEN {"engine"} ELSE {})
                          \cup (IF wake_word_changed /\ new_config.wake_word_enabled
                                THEN {"detector"} ELSE {})] ]

\* A component sequence that replaces the engine without unloading it.
ComponentEventsLeaking(w, new_config) ==
    LET engine_changed    == new_config.engine # w.config.engine
        wake_word_changed == new_config.wake_word_enabled # w.config.wake_word_enabled
    IN  (IF engine_changed THEN <<[op |-> "create", kind |-> "engine"]>> ELSE <<>>)
        \o (IF wake_word_changed
            THEN IF new_config.wake_word_enabled
                 THEN <<[op |-> "create", kind |-> "detector"]>>
                 ELSE (IF w.detector # NoDetector
                       THEN <<[op |-> "unload_model", kind |-> "detector"]>> ELSE <<>>)
                      \o <<[op |-> "clear", kind |-> "detector"]>>
            ELSE <<>>)

\* What "Recreate components if needed" of update_config does to the engine
\* and the detector, in the order of the code: unload_model on an instance,
\* construction of an instance into the handle, clearing of the handle.
ComponentEvents(w, new_config) ==
    LET engine_changed    == new_config.engine # w.config.engine
        wake_word_changed == new_config.wake_word_enabled # w.config.wake_word_enabled
    IN  (IF engine_changed
         THEN (IF w.engine # NoEngine
               THEN <<[op |-> "unload_model", kind |-> "engine"]>> ELSE <<>>)
              \o <<[op |-> "create", kind |-> "engine"]>>
         ELSE <<>>)
        \o (IF wake_word_changed
            THEN IF new_config.wake_word_enabled
                 THEN <<[op |-> "create", kind |-> "detector"]>>
                 ELSE (IF w.detector # NoDetector
                       THEN <<[op |-> "unload_model", kind |-> "detector"]>> ELSE <<>>)
                      \o <<[op |-> "clear", kind |-> "detector"]>>
            ELSE <<>>)

RECURSIVE ReplayEvents(_, _, _)
\* The instances after the component events: heap.engine and heap.detector
\* are the two handles, heap.orphans the instances that lost their handle,
\* each as loaded as it was when the handle was overwritten.
ReplayEvents(heap, events, new_config) ==
    IF events = <<>> THEN heap
    ELSE LET e == events[1]
             lostEngine   == IF heap.engine # NoEngine
                             THEN {[kind |-> "engine", is_loaded |-> heap.engine.is_loaded]}
                             ELSE {}
             lostDetector == IF heap.detector # NoDetector
                             THEN {[kind |-> "detector", is_loaded |-> heap.detector.is_loaded]}
                             ELSE {}
             next ==
                 CASE e.op = "unload_model" /\ e.kind = "engine" ->
                          [heap EXCEPT !.engine = EngineUnloaded(@)]
                   [] e.op = "unload_model" /\ e.kind = "detector" ->
                          [heap EXCEPT !.detector = DetectorUnloaded(@)]
                   [] e.op = "create" /\ e.kind = "engine" ->
                          [heap EXCEPT !.engine = CreateEngine(new_config.engine),
                                       !.orphans = @ \cup lostEngine]
                   [] e.op = "create" /\ e.kind = "detector" ->
                          [heap EXCEPT !.detector =
                                           NewWakeWordDetector(new_config.wake_word_threshold),
                                       !.orphans = @ \cup lostDetector]
                   [] e.op = "clear" /\ e.kind = "detector" ->
                          [heap EXCEPT !.detector = NoDetector,
                                       !.orphans = @ \cup lostDetector]
         IN  ReplayEvents(next, Tail(events), new_config)

\* A start_listening that does not look at the flags.
StartListeningUnguarded(w) ==
    LET w1 == [w EXCEPT !.ap = OnWakeWordDetected(w.ap)]
    IN  [ w    |-> w1,
          call |-> [NoCall("start_listening") EXCEPT
                      !.ready = IsReady(w),
                      !.trace = Dedupe(<<w.ap.state, w1.ap.state>>)] ]

\* STTManager.start_listening
StartListening(w) ==
    LET w1 == IF w.st.enabled /\ w.st.model_loaded
              THEN [w EXCEPT !.ap = OnWakeWordDetected(w.ap)]
              ELSE w
    IN  [ w    |-> w1,
          call |-> [NoCall("start_listening") EXCEPT
                      !.ready = IsReady(w),
                      !.trace = Dedupe(<<w.ap.state, w1.ap.state>>)] ]

\* STTManager.stop_listening (WakeWordDetector.reset only clears the
\* streaming state inside the openWakeWord model).
StopListening(w) ==
    LET w1 == [w EXCEPT !.ap = Reset(w.ap)]
    IN  [ w    |-> w1,
          call |-> [NoCall("stop_listening") EXCEPT
                      !.ready = IsReady(w),
                      !.trace = Dedupe(<<w.ap.state, w1.ap.state>>)] ]

\* STTManager.add_listener
AddListener(w, callback) ==
    [ w    |-> [w EXCEPT !.st.listeners = Append(@, callback)],
      call |-> NoCall("add_listener") ]

RECURSIVE RemoveFirst(_, _)
\* list.remove(x): the list without its first x.
RemoveFirst(s, x) ==
    IF s = <<>> THEN s
    ELSE IF s[1] = x THEN Tail(s)
         ELSE <<s[1]>> \o RemoveFirst(Tail(s), x)

\* STTManager.remove_listener
RemoveListener(w, callback) ==
    [ w    |-> [w EXCEPT !.st.listeners = RemoveFirst(@, callback)],
      call |-> NoCall("remove_listener") ]

\* ------------------------------------------------------------ ProfileStore
\* llm/profiles.py.  A profile is carried as its id and its name; the other
\* fields of Profile follow it unread.  _profiles is a dict, kept here as
\* the sequence of its values in insertion order.

\* "DEFAULT_PROFILES"
DefaultProfiles ==
    << [id |-> "friendly", name |-> "Friendly Robot"],
       [id |-> "curious",  name |-> "Curious Explorer"],
       [id |-> "helpful",  name |-> "Helpful Assistant"] >>

\* The ids generate_id hands out, uuid4().hex[:8]: nothing keeps two of
\* them distinct.
GeneratedIds ==
    LET pool == <<"0a1b2c3d", "4e5f6a7b", "8c9d0e1f", "2a3b4c5d">>
    IN  { pool[i] : i \in 1..MaxGeneratedIds }

\* A ProfileUpdate that sets no field.
Unset == "<unset>"

ProfileIds == { DefaultProfiles[i].id : i \in DOMAIN DefaultProfiles } \cup GeneratedIds

\* The storage file: whether it exists, whether json.load accepts it, and
\* the list under its "profiles" key, empty when the key is absent.
NoFile == [exists |-> FALSE, json |-> FALSE, profiles |-> <<>>]
FileOf(profiles) == [exists |-> TRUE, json |-> TRUE, profiles |-> profiles]

\* "profile_id in self._profiles"
HasId(profiles, id) == \E i \in DOMAIN profiles : profiles[i].id = id

\* "self._profiles[profile.id] = profile": a known key keeps its place.
DictPut(profiles, p) ==
    IF HasId(profiles, p.id)
    THEN [i \in DOMAIN profiles |-> IF profiles[i].id = p.id THEN p ELSE profiles[i]]
    ELSE Append(profiles, p)

\* ProfileStore._save
Save(s) == [s EXCEPT !.file = FileOf(s.profiles)]

\* ProfileStore._create_defaults, its loop over the three defaults unrolled
CreateDefaults(s) ==
    LET d == DefaultProfiles
    IN  Save([s EXCEPT !.profiles = DictPut(DictPut(DictPut(@, d[1]), d[2]), d[3])])

\* The loop of _load over the file's entries.  Profile(**profile_data)
\* raises a ValueError on an entry whose name is empty, and the entries
\* before it stay in the dict.
RECURSIVE LoadEntries(_, _)
LoadEntries(profiles, entries) ==
    IF entries = <<>> THEN [profiles |-> profiles, raised |-> FALSE]
    ELSE IF Head(entries).name = "" THEN [profiles |-> profiles, raised |-> TRUE]
    ELSE LoadEntries(DictPut(profiles, Head(entries)), Tail(entries))

\* ProfileStore._load
Load(s) ==
    IF ~s.file.exists THEN CreateDefaults(s)
    ELSE IF ~s.file.json THEN CreateDefaults(s)
    ELSE LET r == LoadEntries(s.profiles, s.file.profiles)
         IN  IF r.raised THEN CreateDefaults([s EXCEPT !.profiles = r.profiles])
             ELSE [s EXCEPT !.profiles = r.profiles]

\* ProfileStore(storage_path) with the file found at storage_path.
NewProfileStore(file) == Load([profiles |-> <<>>, file |-> file])

\* ProfileStore.get_default
GetDefault(s) ==
    LET t == IF s.profiles = <<>> THEN CreateDefaults(s) ELSE s
    IN  [s |-> t, result |-> Head(t.profiles)]

\* ProfileStore.create, generate_id answering id
Create(s, id, name) ==
    LET p == [id |-> id, name |-> name]
    IN  [s |-> Save([s EXCEPT !.profiles = DictPut(@, p)]), result |-> p]

\* ProfileStore.update; the result is whether a profile was returned.
Update(s, id, name) ==
    IF ~HasId(s.profiles, id) THEN [s |-> s, result |-> FALSE]
    ELSE IF name = Unset THEN [s |-> s, result |-> TRUE]
    ELSE [ s |-> Save([s EXCEPT !.profiles = DictPut(@, [id |-> id, name |-> name])]),
           result |-> TRUE ]

\* ProfileStore.delete
Delete(s, id) ==
    IF ~HasId(s.profiles, id) THEN [s |-> s, result |-> FALSE]
    ELSE IF Len(s.profiles) <= 1 THEN [s |-> s, result |-> FALSE]
    ELSE [ s |-> Save([s EXCEPT !.profiles = SelectSeq(@, LAMBDA p : p.id # id)]),
           result |-> TRUE ]

\* ------------------------------------------------------ the state machine
VARIABLES
    config,     \* STTManager.config
    engine,     \* STTManager._engine
    detector,   \* STTManager._wake_word_detector
    ap,         \* STTManager._audio_processor
    st,         \* STTManager._state
    threads,    \* STTManager._lock and the calls in progress on each thread
    store       \* main.py's profile_store

vars == <<config, engine, detector, ap, st, threads, store>>

NoChunk  == [n |-> 0, amp |-> 0, vad |-> <<>>]
NoConfig == [ enabled |-> FALSE, engine |-> None, wake_word_enabled |-> FALSE,
              wake_word_threshold |-> 0, silence_timeout_seconds |-> 0,
              max_duration_seconds |-> 0 ]

\* The audio thread outside process_audio.  Inside, pc is the point reached:
\* "check" before the unlocked test of the flags, "wait" at "with
\* self._lock", "body" inside the lock before the wake gate, "transcribe"
\* at _transcribe_utterance, "fanout" in the listener loop with i the list
\* iterator's index, "done" with the call's work finished, "stuck" blocked
\* for good.  called, registered, changed and reentered record the fan-out:
\* the listeners called so far, the list when the loop started, the
\* listeners added or removed during the loop, and whether a listener
\* called back into the coordinator.
AudioOut ==
    [ pc |-> "out", chunk |-> NoChunk, i |-> 0, called |-> <<>>,
      registered |-> <<>>, changed |-> {}, reentered |-> FALSE ]

\* The control thread outside any call.  Inside, pc is "wait" at "with
\* self._lock" of the call op, "mid" in update_config after the
\* configuration was written, "unlocked" in add_listener or remove_listener.
\* before is what get_status reported when update_config took the lock.
ControlOut ==
    [ pc |-> "out", op |-> None, new_config |-> NoConfig,
      engine_changed |-> FALSE, wake_word_changed |-> FALSE, before |-> <<>> ]

\* No call in progress and the lock free.
Resting == [lock |-> "free", audio |-> AudioOut, control |-> ControlOut]

World == [config |-> config, engine |-> engine, detector |-> detector,
          ap |-> ap, st |-> st]

VadVerdicts == {"speech", "nonspeech", "error"}

\* The frames the capture path delivers.
Chunks ==
    UNION { { [n |-> n, amp |-> a, vad |-> v] :
              a \in AmpChoices, v \in [1..NumVadFrames(n) -> VadVerdicts] } :
            n \in ChunkLens }

\* The coordinator's fields become those of world w.
Writes(w) ==
    /\ config' = w.config
    /\ engine' = w.engine
    /\ detector' = w.detector
    /\ ap' = w.ap
    /\ st' = w.st
    /\ store' = store

\* A whole call made with no other call in progress.
Becomes(r) == Writes(r.w) /\ UNCHANGED threads

\* The state after STTManager(cfg), cfg among cfgs, on a host where
\* webrtcvad is importable (TRUE) or not (FALSE).
InitOn(cfgs, hosts) ==
    \E cfg \in cfgs, vadOk \in hosts :
        LET w == NewManager(cfg, vadOk)
        IN  /\ config = w.config
            /\ engine = w.engine
            /\ detector = w.detector
            /\ ap = w.ap
            /\ st = w.st
            /\ threads = Resting
            /\ store = NewProfileStore(NoFile)

\* The environment of one process_audio call: what the wake-word model and
\* the recognition backend would answer if they were asked.
EnvsOf(answers, ids) ==
    [predict : Predictions, transcribe : answers, raisers : SUBSET ids]

Envs == EnvsOf(Transcriptions, ListenerIds)

\* The environments in which the backend transcribes to a non-empty text.
CaptureEnvs == EnvsOf({[raise |-> FALSE, text |-> "hi"]}, ListenerIds)

\* The environments of the fan-out model: the backend answers and any of the
\* callbacks may raise.
FanOutEnvs == EnvsOf({[raise |-> FALSE, text |-> "hi"]}, FanOutIds)

\* The environments of envs that can make a difference from world w: the
\* wake-word model is consulted only from idle, the backend only after
\* listening, and only registered listeners are called; where one is not
\* consulted a single answer stands for all.
EnvsFor(w, envs) ==
    LET ps == {e.predict : e \in envs}
        ts == {e.transcribe : e \in envs}
        registered == {w.st.listeners[i] : i \in 1..Len(w.st.listeners)}
    IN  [ predict    : IF IsReady(w) /\ w.ap.state = "idle"
                       THEN ps ELSE {CHOOSE p \in ps : TRUE},
          transcribe : IF IsReady(w) /\ w.ap.state \in {"listening", "processing"}
                       THEN ts ELSE {CHOOSE t \in ts : TRUE},
          raisers    : IF IsReady(w) /\ w.ap.state \in {"listening", "processing"}
                       THEN {e.raisers \cap registered : e \in envs} ELSE {{}} ]

ProcessAudioOn(envs) ==
    \E chunk \in Chunks, env \in EnvsFor(World, envs) :
        Becomes(ProcessAudio(World, chunk, env))

LoadModelsOn(outcomes) ==
    \E e \in outcomes, d \in outcomes : Becomes(LoadModels(World, e, d))

UpdateConfigOn(cfgs) == \E c \in cfgs : Becomes(UpdateConfig(World, c))

\* ---- the control-path model: every public call, coarse audio timing, on
\* a host without webrtcvad (the energy fallback classifies every frame).
Init == InitOn(Configs, {FALSE})

ProcessAudioStep == ProcessAudioOn(Envs)

LoadModelsStep == LoadModelsOn({"ok", "fail"})

UnloadModelsStep == Becomes(UnloadModels(World))

UpdateConfigStep == UpdateConfigOn(Configs)

StartListeningStep == Becomes(StartListening(World))

StopListeningStep == Becomes(StopListening(World))

AddListenerOn(ids, longest) ==
    /\ Len(st.listeners) < longest
    /\ \E l \in ids : Becomes(AddListener(World, l))

RemoveListenerOn(ids) == \E l \in ids : Becomes(RemoveListener(World, l))

AddListenerStep == AddListenerOn(ListenerIds, MaxListeners)

RemoveListenerStep == RemoveListenerOn(ListenerIds)

Next ==
    \/ ProcessAudioStep
    \/ LoadModelsStep
    \/ UnloadModelsStep
    \/ UpdateConfigStep
    \/ StartListeningStep
    \/ StopListeningStep
    \/ AddListenerStep
    \/ RemoveListenerStep

Spec == Init /\ [][Next]_vars

\* ---- the capture model: an enabled pipeline whose models load and whose
\* backend answers, with every timeout pair at construction and at
\* reconfiguration, on hosts with and without webrtcvad.
CaptureInit == InitOn(CaptureConfigs, BOOLEAN)

CaptureAudioStep == ProcessAudioOn(CaptureEnvs)

CaptureLoadStep == LoadModelsOn({"ok"})

CaptureConfigStep == UpdateConfigOn(CaptureConfigs)

CaptureNext ==
    \/ CaptureAudioStep
    \/ CaptureLoadStep
    \/ CaptureConfigStep
    \/ StartListeningStep
    \/ StopListeningStep

SpecCapture == CaptureInit /\ [][CaptureNext]_vars

\* ---- the fan-out model: an enabled pipeline on one engine whose models
\* load and whose backend answers, with up to MaxFanOut registered callbacks
\* of which any may raise.
FanOutConfigs == ConfigsOf({TRUE}, {"vosk-small"}, ControlTimeouts)

FanOutInit == InitOn(FanOutConfigs, {FALSE})

FanOutAudioStep == ProcessAudioOn(FanOutEnvs)

FanOutLoadStep == LoadModelsOn({"ok"})

FanOutAddStep == AddListenerOn(FanOutIds, MaxFanOut)

FanOutRemoveStep == RemoveListenerOn(FanOutIds)

FanOutNext ==
    \/ FanOutAudioStep
    \/ FanOutLoadStep
    \/ FanOutAddStep
    \/ FanOutRemoveStep
    \/ StartListeningStep
    \/ StopListeningStep

SpecFanOut == FanOutInit /\ [][FanOutNext]_vars

\* ---- the timing scenario: one wake trigger, ScenarioSpeechChunks loud
\* chunks of 20 ms, then quiet chunks of 20 ms, with a silence timeout of
\* 1.5 s and a maximum of 10 s, on hosts with and without webrtcvad.  At
\* SampleRate 100 a 20 ms chunk has 2 samples and a 30 ms VAD frame 3, as
\* 320 and 480 at 16000.
ScenarioChunkLen == (SampleRate * 20) \div 1000

ScenarioConfig ==
    [ enabled                 |-> TRUE,
      engine                  |-> "vosk-small",
      wake_word_enabled       |-> TRUE,
      wake_word_threshold     |-> 50,
      silence_timeout_seconds |-> (3 * TimeDen) \div 2,
      max_duration_seconds    |-> 10 * TimeDen ]

\* Chunks delivered since the wake trigger.
ChunksFed(a) == IF a.buffer = <<>> THEN 0 ELSE Last(a.buffer) \div ScenarioChunkLen

\* The chunk the scenario delivers after k others: loud, then quiet.  No
\* chunk holds a complete VAD frame unless ScenarioChunkLen reaches one.
ScenarioChunk(k) ==
    [ n   |-> ScenarioChunkLen,
      amp |-> IF k < ScenarioSpeechChunks THEN 1000 ELSE 0,
      vad |-> [i \in 1..NumVadFrames(ScenarioChunkLen) |->
                  IF k < ScenarioSpeechChunks THEN "speech" ELSE "nonspeech"] ]

ScenarioInit ==
    \E vadOk \in BOOLEAN :
        LET w == NewManager(ScenarioConfig, vadOk)
        IN  /\ config = w.config
            /\ engine = w.engine
            /\ detector = w.detector
            /\ ap = OnWakeWordDetected(w.ap)
            /\ st = w.st
            /\ threads = Resting
            /\ store = NewProfileStore(NoFile)

\* AudioProcessor.process_chunk on the scenario's next chunk.
ScenarioFeedStep ==
    /\ ap.state \in {"wake_detected", "listening"}
    /\ ap' = ProcessChunk(ap, ScenarioChunk(ChunksFed(ap)))
    /\ UNCHANGED <<config, engine, detector, st, threads, store>>

ScenarioNext == ScenarioFeedStep

SpecScenario == ScenarioInit /\ [][ScenarioNext]_vars

\* ---- the detector model: a WakeWordDetector constructed with up to
\* MaxWakeWords distinct trigger phrases, loaded and unloaded, its threshold
\* rewritten as update_config does, and asked about frames for which the
\* openWakeWord model reports any scores.
WakeWordNames == {"hey_jarvis", "alexa", "hey_mycroft"}

\* Thresholds and scores of the detector model, in hundredths.
WakeThresholds == {30, 50, 80}

WakeScores == {20, 50, 80}

\* The wake_words lists: one to MaxWakeWords distinct phrases in any order.
WakeWordLists ==
    { ws \in UNION { [1..k -> WakeWordNames] : k \in 1..MaxWakeWords } :
        \A i, j \in 1..Len(ws) : i # j => ws[i] # ws[j] }

\* What Model.predict answers to detector det: one score for each model it
\* was given, in the order of wakeword_models = self.wake_words.
PredictionsFor(det) ==
    { [raise |-> FALSE,
       scores |-> [i \in 1..Len(det.wake_words) |->
                      [word |-> det.wake_words[i], score |-> sc[i]]]] :
      sc \in [1..Len(det.wake_words) -> WakeScores] }

WakeInit ==
    \E ws \in WakeWordLists, th \in WakeThresholds :
        LET w == NewManager(ScenarioConfig, FALSE)
        IN  /\ config = w.config
            /\ engine = w.engine
            /\ detector = [NewWakeWordDetector(th) EXCEPT !.wake_words = ws]
            /\ ap = w.ap
            /\ st = w.st
            /\ threads = Resting
            /\ store = NewProfileStore(NoFile)

\* WakeWordDetector.load_model / unload_model
WakeLoadStep ==
    /\ detector' = DetectorLoaded(detector)
    /\ UNCHANGED <<config, engine, ap, st, threads, store>>

WakeUnloadStep ==
    /\ detector' = DetectorUnloaded(detector)
    /\ UNCHANGED <<config, engine, ap, st, threads, store>>

\* "self._wake_word_detector.threshold = new_config.wake_word_threshold"
WakeThresholdStep ==
    /\ \E th \in WakeThresholds : detector' = [detector EXCEPT !.threshold = th]
    /\ UNCHANGED <<config, engine, ap, st, threads, store>>

\* is_wake_word_detected on one frame, its answer kept as process_audio
\* keeps it: the word is recorded when one was detected.
WakeDetectStep ==
    /\ \E predict \in PredictionsFor(detector) :
          LET r == IsWakeWordDetected(detector, predict)
          IN  st' = IF r.detected THEN [st EXCEPT !.last_wake_word = r.word] ELSE st
    /\ UNCHANGED <<config, engine, detector, ap, threads, store>>

WakeNext ==
    \/ WakeLoadStep
    \/ WakeUnloadStep
    \/ WakeThresholdStep
    \/ WakeDetectStep

SpecWake == WakeInit /\ [][WakeNext]_vars

\* ---- the profile model: a ProfileStore constructed on a storage file and
\* the calls the LLM endpoints make on it.
\* The files a store is constructed on: none, one json.load refuses, and
\* well-formed ones whose list is empty, holds profiles, holds one id
\* twice, or holds an entry Profile refuses.
StorageFiles ==
    LET a == [id |-> "0a1b2c3d", name |-> "Pal"]
        b == [id |-> "0a1b2c3d", name |-> "Friendly Robot"]
        bad == [id |-> "4e5f6a7b", name |-> ""]
    IN  {NoFile, [NoFile EXCEPT !.exists = TRUE]}
        \cup { FileOf(l) : l \in { <<>>, <<a>>, <<DefaultProfiles[1], a>>,
                                     <<a, b>>, <<a, bad>>, <<bad>> } }

ProfilesInit ==
    \E file \in StorageFiles :
        LET w == NewManager(ScenarioConfig, FALSE)
        IN  /\ config = w.config
            /\ engine = w.engine
            /\ detector = w.detector
            /\ ap = w.ap
            /\ st = w.st
            /\ threads = Resting
            /\ store = NewProfileStore(file)

CreateStep ==
    /\ \E id \in GeneratedIds : store' = Create(store, id, "Pal").s
    /\ UNCHANGED <<config, engine, detector, ap, st, threads>>

UpdateStep ==
    /\ \E id \in ProfileIds, name \in {"Pal", Unset} :
          store' = Update(store, id, name).s
    /\ UNCHANGED <<config, engine, detector, ap, st, threads>>

DeleteStep ==
    /\ \E id \in ProfileIds : store' = Delete(store, id).s
    /\ UNCHANGED <<config, engine, detector, ap, st, threads>>

GetDefaultStep ==
    /\ store' = GetDefault(store).s
    /\ UNCHANGED <<config, engine, detector, ap, st, threads>>

ProfilesNext ==
    \/ CreateStep
    \/ UpdateStep
    \/ DeleteStep
    \/ GetDefaultStep

SpecProfiles == ProfilesInit /\ [][ProfilesNext]_vars

\* ---- the threads model: the audio thread calls process_audio while the
\* control thread calls update_config, load_models, unload_models,
\* start_listening, stop_listening, add_listener and remove_listener.  A step
\* is a stretch of one call between two points where the other thread can
\* make a difference: taking the lock, an access outside the lock, one turn
\* of the listener loop.  load_models, unload_models, start_listening and
\* stop_listening hold the lock from their first access to their last and
\* are one step each, taken when the lock is free.
\* The threads model runs without wake-word detection, on frames of two
\* kinds, with models that load and a backend that answers.
ThreadConfigs == {c \in Configs : ~c.wake_word_enabled}

ThreadChunks == {[n |-> 2, amp |-> 1000, vad |-> <<>>], [n |-> 4, amp |-> 0, vad |-> <<>>]}

\* What a listener does with the event: return, raise, call one of the
\* coordinator operations that begin by taking the lock, or call
\* process_audio.
ListenerBehaviours == {"return", "raise", "locked_call", "process_audio"}

LockedOps == {"update_config", "load_models", "unload_models",
              "start_listening", "stop_listening"}

\* The four fields of get_status that describe the configuration in force.
StatusTuple(w) ==
    LET status == GetStatus(w)
    IN  <<status.enabled, status.engine, status.wake_word_enabled, status.model_loaded>>

\* The lock is released and the audio thread leaves process_audio.
AudioLeaves == [threads EXCEPT !.lock = "free", !.audio = AudioOut]

\* process_audio is called.
AudioCallStep ==
    /\ threads.audio.pc = "out"
    /\ threads' = [threads EXCEPT !.audio.pc = "check"]
    /\ UNCHANGED <<config, engine, detector, ap, st, store>>

\* The test of enabled and model_loaded, made before the lock is taken.
AudioCheckStep ==
    /\ threads.audio.pc = "check"
    /\ threads' = [threads EXCEPT !.audio.pc = IF NotReady(World) THEN "out" ELSE "wait"]
    /\ UNCHANGED <<config, engine, detector, ap, st, store>>

\* "with self._lock" of process_audio.
AudioAcquireStep ==
    /\ threads.audio.pc = "wait"
    /\ threads.lock = "free"
    /\ threads' = [threads EXCEPT !.lock = "audio", !.audio.pc = "body"]
    /\ UNCHANGED <<config, engine, detector, ap, st, store>>

\* The wake gate and process_chunk on the frame passed in, under the lock.
\* An exception of the detector leaves the with block.
AudioBodyStep ==
    /\ threads.audio.pc = "body"
    /\ \E chunk \in ThreadChunks, predict \in Predictions :
          LET gate == IF GateOpen(World) THEN WakeGate(World, predict)
                      ELSE [w |-> World, raised |-> FALSE, scored |-> FALSE]
              fed  == [gate.w EXCEPT !.ap = ProcessChunk(gate.w.ap, chunk)]
          IN  IF gate.raised
              THEN UNCHANGED <<config, engine, detector, ap, st, store>> /\ threads' = AudioLeaves
              ELSE /\ Writes(fed)
                   /\ threads' = IF fed.ap.state = "processing"
                                 THEN [threads EXCEPT !.audio.pc = "transcribe"]
                                 ELSE AudioLeaves

\* _transcribe_utterance up to the listener loop.  Without an engine, with
\* an empty utterance or when the backend raises the call ends here.
AudioTranscribeStep ==
    /\ threads.audio.pc = "transcribe"
    /\ \E outcome \in {[raise |-> FALSE, text |-> "hi"]} :
          LET t == TranscribeUtterance(World, outcome, {})
          IN  IF t.event = NoEvent
              THEN Writes(t.w) /\ threads' = AudioLeaves
              ELSE /\ Writes([World EXCEPT !.st.last_transcript = t.text])
                   /\ threads' = [threads EXCEPT !.audio =
                                     [AudioOut EXCEPT !.pc = "fanout",
                                                      !.registered = st.listeners]]

\* One turn of "for listener in self._state.listeners": the iterator yields
\* the element at its index in the list as it is now, and the listener is
\* called.  A listener that calls an operation taking the lock waits for
\* the lock its own thread holds; process_audio tests the flags first.
AudioNotifyStep ==
    /\ threads.audio.pc = "fanout"
    /\ threads.audio.i < Len(st.listeners)
    /\ \E does \in ListenerBehaviours :
          LET turn == [threads.audio EXCEPT !.i = @ + 1,
                                            !.called = Append(@, st.listeners[threads.audio.i + 1])]
              blocks == \/ does = "locked_call"
                        \/ does = "process_audio" /\ ~NotReady(World)
          IN  threads' = [threads EXCEPT !.audio =
                  IF does \in {"return", "raise"} THEN turn
                  ELSE IF blocks THEN [turn EXCEPT !.reentered = TRUE, !.pc = "stuck"]
                  ELSE [turn EXCEPT !.reentered = TRUE]]
    /\ UNCHANGED <<config, engine, detector, ap, st, store>>

\* The iterator is exhausted: the finally block runs and the lock is
\* released.
AudioFinishStep ==
    /\ threads.audio.pc = "fanout"
    /\ threads.audio.i >= Len(st.listeners)
    /\ Writes([World EXCEPT !.ap = OnTranscriptionComplete(ap),
                            !.st.last_wake_word = None])
    /\ threads' = [threads EXCEPT !.lock = "free", !.audio.pc = "done"]

\* process_audio returns its result.
AudioReturnStep ==
    /\ threads.audio.pc = "done"
    /\ threads' = [threads EXCEPT !.audio = AudioOut]
    /\ UNCHANGED <<config, engine, detector, ap, st, store>>

\* The control thread calls an operation.
ControlCallStep ==
    /\ threads.control.pc = "out"
    /\ \/ \E op \in LockedOps :
             threads' = [threads EXCEPT !.control.pc = "wait", !.control.op = op]
       \/ /\ Len(st.listeners) < MaxFanOut
          /\ threads' = [threads EXCEPT !.control.pc = "unlocked",
                                        !.control.op = "add_listener"]
       \/ threads' = [threads EXCEPT !.control.pc = "unlocked",
                                     !.control.op = "remove_listener"]
    /\ UNCHANGED <<config, engine, detector, ap, st, store>>

\* An entry that does not wait for the lock.
ControlTakesUnlocked(op) ==
    /\ threads.control.pc = "wait"
    /\ threads.control.op = op

\* "with self._lock" of the control thread's call op: it waits at the lock
\* until the lock is free.
ControlTakes(op) ==
    /\ threads.control.pc = "wait"
    /\ threads.control.op = op
    /\ threads.lock = "free"

\* update_config takes the lock, computes the two flags and writes the
\* configuration and the AudioProcessor settings.
ControlUpdateStep ==
    /\ ControlTakes("update_config")
    /\ \E c \in ThreadConfigs :
          /\ Writes(UpdateConfigWritten(World, c))
          /\ threads' = [threads EXCEPT
                 !.lock = "control",
                 !.control = [ pc |-> "mid", op |-> "update_config", new_config |-> c,
                               engine_changed |-> c.engine # config.engine,
                               wake_word_changed |->
                                   c.wake_word_enabled # config.wake_word_enabled,
                               before |-> StatusTuple(World) ]]

\* update_config recreates the components, sets the threshold and the
\* enabled flag and releases the lock.
ControlUpdateRestStep ==
    /\ threads.control.pc = "mid"
    /\ Writes(UpdateConfigRest(World, threads.control.new_config,
                               threads.control.engine_changed,
                               threads.control.wake_word_changed))
    /\ threads' = [threads EXCEPT !.lock = "free", !.control = ControlOut]

ControlLoadStep ==
    /\ ControlTakes("load_models")
    /\ Writes(LoadModels(World, "ok", "ok").w)
    /\ threads' = [threads EXCEPT !.control = ControlOut]

ControlUnloadStep ==
    /\ ControlTakes("unload_models")
    /\ Writes(UnloadModels(World).w)
    /\ threads' = [threads EXCEPT !.control = ControlOut]

ControlStartStep ==
    /\ ControlTakes("start_listening")
    /\ Writes(StartListening(World).w)
    /\ threads' = [threads EXCEPT !.control = ControlOut]

ControlStopStep ==
    /\ ControlTakes("stop_listening")
    /\ Writes(StopListening(World).w)
    /\ threads' = [threads EXCEPT !.control = ControlOut]

\* add_listener: list.append, no lock.
ControlAddStep ==
    /\ threads.control.pc = "unlocked"
    /\ threads.control.op = "add_listener"
    /\ \E l \in FanOutIds :
          /\ Writes(AddListener(World, l).w)
          /\ threads' = [threads EXCEPT
                 !.control = ControlOut,
                 !.audio.changed = IF threads.audio.pc = "fanout" THEN @ \cup {l} ELSE @]

\* remove_listener: list.remove of the first occurrence, no lock.
ControlRemoveStep ==
    /\ threads.control.pc = "unlocked"
    /\ threads.control.op = "remove_listener"
    /\ \E l \in FanOutIds :
          /\ Writes(RemoveListener(World, l).w)
          /\ threads' = [threads EXCEPT
                 !.control = ControlOut,
                 !.audio.changed = IF threads.audio.pc = "fanout" /\ CountOf(st.listeners, l) > 0
                                   THEN @ \cup {l} ELSE @]

ThreadsInit == InitOn(ThreadConfigs, {FALSE})

ThreadsNext ==
    \/ AudioCallStep
    \/ AudioCheckStep
    \/ AudioAcquireStep
    \/ AudioBodyStep
    \/ AudioTranscribeStep
    \/ AudioNotifyStep
    \/ AudioFinishStep
    \/ AudioReturnStep
    \/ ControlCallStep
    \/ ControlUpdateStep
    \/ ControlUpdateRestStep
    \/ ControlLoadStep
    \/ ControlUnloadStep
    \/ ControlStartStep
    \/ ControlStopStep
    \/ ControlAddStep
    \/ ControlRemoveStep

SpecThreads == ThreadsInit /\ [][ThreadsNext]_vars

\* ------------------------------------------------------------ properties
\* The results of every process_audio call that can be made now.
AudioCalls == { ProcessAudio(World, chunk, env) : chunk \in Chunks, env \in Envs }

\* The permitted AudioState changes.
ValidSteps ==
    { <<"idle", "wake_detected">>, <<"wake_detected", "listening">>,
      <<"listening", "processing">>, <<"processing", "idle">> }

ValidPath(trace) ==
    \A i \in 1..(Len(trace) - 1) : <<trace[i], trace[i + 1]>> \in ValidSteps

HasStep(trace, a, b) ==
    \E i \in 1..(Len(trace) - 1) : trace[i] = a /\ trace[i + 1] = b

\* C1: with the pipeline enabled and the models loaded, every change of
\* AudioState that a process_audio call makes is one of Idle->WakeDetected,
\* WakeDetected->Listening, Listening->Processing, Processing->Idle.  The
\* state only changes inside calls, so a sequence of frames walks the cycle.
C1_ValidTransitions ==
    \A r \in AudioCalls : IsReady(World) => ValidPath(r.call.trace)

\* C1 witness: a ready pipeline is listening and one more frame takes it
\* through Listening->Processing->Idle in a single call.
C1_Witness ==
    /\ IsReady(World)
    /\ ap.state = "listening"
    /\ \E r \in AudioCalls : r.call.trace = <<"listening", "processing", "idle">>

\* C2: on_transcription_complete is called once for every
\* Listening->Processing transition, so a process_audio call that returns
\* never leaves the AudioState at Processing.
C2_NeverLeftProcessing ==
    \A r \in AudioCalls :
        (IsReady(World) /\ r.call.ret # "raised") =>
            /\ r.w.ap.state # "processing"
            /\ HasStep(r.call.trace, "listening", "processing") => r.call.completed

\* C3: while enabled and loaded, no process_audio call raises, and when the
\* detector or the engine raised inside it the error text is in the runtime
\* error field.
C3_ErrorsAbsorbed ==
    \A r \in AudioCalls :
        IsReady(World) =>
            /\ r.call.ret # "raised"
            /\ r.call.raisedIn # None => r.w.st.error # None

\* C4: each time a call takes the AudioProcessor Listening->Processing and
\* the backend does not fail, every registered listener is called once with
\* the event, empty text included, and the state is back at Idle.
C4_EventPerUtterance ==
    \A chunk \in Chunks, env \in Envs :
        LET r == ProcessAudio(World, chunk, env)
        IN  ( /\ IsReady(World)
              /\ ~env.transcribe.raise
              /\ HasStep(r.call.trace, "listening", "processing") ) =>
                /\ r.call.event # NoEvent
                /\ r.call.event.text = env.transcribe.text
                /\ r.call.notified = st.listeners
                /\ r.w.ap.state = "idle"

\* C5: process_audio called while enabled is false or model_loaded is false
\* returns nothing, leaves the AudioProcessor, the runtime state, the engine,
\* the detector and the configuration as they were, and asks neither the
\* detector nor the engine anything.
C5_NotReadyNoOp ==
    \A r \in AudioCalls :
        (~st.enabled \/ ~st.model_loaded) =>
            /\ r.w = World
            /\ r.call.ret = None
            /\ r.call.event = NoEvent
            /\ ~r.call.scored
            /\ ~r.call.transcribed
            /\ ~r.call.completed
            /\ r.call.notified = <<>>

\* C5 witness: the pipeline is not ready in the middle of a capture, with
\* samples buffered and counted, so there is state a frame could disturb.
C5_Witness ==
    /\ ~st.enabled \/ ~st.model_loaded
    /\ ap.state = "listening"
    /\ ap.buffer # <<>>
    /\ ap.speech_samples > 0
    /\ \E r \in AudioCalls : r.w = World

CeilDiv(a, b) == (a + b - 1) \div b

\* A frame of n samples that is_speech classifies as non-speech / speech.
SilentChunk(n) ==
    [n |-> n, amp |-> EnergyThreshold, vad |-> [i \in 1..NumVadFrames(n) |-> "nonspeech"]]

SpeechChunk(n) ==
    [n |-> n, amp |-> 2 * EnergyThreshold, vad |-> [i \in 1..NumVadFrames(n) |-> "speech"]]

RECURSIVE ChunksUntilProcessing(_, _, _)
\* How many copies of chunk process_chunk takes to reach PROCESSING from a,
\* trying at most fuel of them.
ChunksUntilProcessing(a, chunk, fuel) ==
    IF a.state = "processing" \/ fuel = 0 THEN 0
    ELSE 1 + ChunksUntilProcessing(ProcessChunk(a, chunk), chunk, fuel - 1)

\* The processor has just entered LISTENING: one frame captured, no silence.
JustListening(a) ==
    /\ a.state = "listening"
    /\ a.buffer # <<>>
    /\ Last(a.buffer) \in ChunkLens
    /\ a.speech_samples = Last(a.buffer)
    /\ a.silence_samples = 0

\* total captured samples stay below the capacity, the configured one and
\* the one in force.
BelowCapacity(a, total) ==
    /\ total < a.max_samples
    /\ TimeDen * total < SampleRate * a.max_duration_seconds

\* C6: from entry into Listening, fed non-speech chunks of n samples each,
\* with the capacity not reached by then, the processor enters Processing on
\* exactly chunk number ceil(silence_timeout_seconds * sample_rate / n).
C6_SilenceTimeout ==
    \A n \in ChunkLens :
        LET k == CeilDiv(SampleRate * ap.silence_timeout_seconds, TimeDen * n)
        IN  (JustListening(ap) /\ BelowCapacity(ap, Last(ap.buffer) + k * n)) =>
                ChunksUntilProcessing(ap, SilentChunk(n), k + ap.silence_threshold + 1) = k

\* C7: while capturing with every frame so far classified speech, a further
\* speech frame that brings the captured total to max_duration_seconds *
\* sample_rate or beyond puts the processor in Processing.
C7_MaxDuration ==
    \A n \in ChunkLens :
        LET chunk == SpeechChunk(n)
            after == ProcessChunk(ap, chunk)
        IN  ( /\ ap.state \in {"wake_detected", "listening"}
              /\ ap.state = "listening" =>
                    ap.buffer # <<>> /\ ap.speech_samples = Last(ap.buffer)
              /\ IsSpeech(ap, chunk)
              /\ after.buffer # <<>>
              /\ TimeDen * Last(after.buffer) >= SampleRate * ap.max_duration_seconds ) =>
                after.state = "processing"

\* The results of every process_audio call that can be made now with wake-word
\* detection disabled, the pipeline ready and the AudioState idle.
FirstFrameCalls ==
    IF IsReady(World) /\ ~config.wake_word_enabled /\ ap.state = "idle"
    THEN { [chunk |-> chunk, r |-> ProcessAudio(World, chunk, env)] :
           chunk \in Chunks, env \in CaptureEnvs }
    ELSE {}

\* C8 as stated: the first frame delivered while Idle with wake-word
\* detection disabled moves Idle->WakeDetected->Listening within the call
\* and the buffer then holds exactly that frame.
C8_FirstFrameWhole ==
    \A c \in FirstFrameCalls :
        /\ c.r.call.trace = <<"idle", "wake_detected", "listening">>
        /\ c.r.w.ap.buffer = FrameSamples(<<>>, c.chunk.n)

\* C8: the first frame delivered while Idle with wake-word detection
\* disabled moves Idle->WakeDetected->Listening within the call, and the
\* buffer then holds that frame's most recent samples, as many as the
\* buffer's capacity admits: the whole frame when it fits.
C8_FirstFrameBuffered ==
    \A c \in FirstFrameCalls :
        LET frame == FrameSamples(<<>>, c.chunk.n)
            keep  == IF c.chunk.n <= ap.maxlen THEN c.chunk.n ELSE ap.maxlen
        IN  /\ c.r.call.trace = <<"idle", "wake_detected", "listening">>
            /\ c.r.w.ap.state = "listening"
            /\ c.r.w.ap.buffer = SubSeq(frame, c.chunk.n - keep + 1, c.chunk.n)
            /\ c.r.w.ap.speech_samples = c.chunk.n

\* C8 witness: a ready pipeline without wake-word detection has just taken
\* a first frame longer than the buffer's capacity; its tail is buffered.
C8_Witness ==
    /\ IsReady(World)
    /\ ~config.wake_word_enabled
    /\ JustListening(ap)
    /\ Len(ap.buffer) = ap.maxlen
    /\ Len(ap.buffer) < Last(ap.buffer)

\* An AudioProcessor at rest.
AtRest(a) ==
    /\ a.state = "idle"
    /\ a.buffer = <<>>
    /\ a.silence_samples = 0
    /\ a.speech_samples = 0

\* C9: after on_transcription_complete(), reset() or stop_listening(),
\* whatever the AudioState before, the state is Idle, the buffer is empty
\* and the silence and speech counters are zero.
C9_ResetClears ==
    /\ AtRest(OnTranscriptionComplete(ap))
    /\ AtRest(Reset(ap))
    /\ AtRest(StopListening(World).w.ap)

\* C9 witness: a capture in progress with samples buffered and both
\* counters non-zero, which stop_listening puts to rest.
C9_Witness ==
    /\ ap.state = "listening"
    /\ ap.buffer # <<>>
    /\ ap.silence_samples > 0
    /\ ap.speech_samples > 0
    /\ AtRest(StopListening(World).w.ap)

\* The results of every call that is not a load_models call that succeeds.
OtherCalls ==
    AudioCalls
    \cup { UpdateConfig(World, c) : c \in Configs }
    \cup { r \in { LoadModels(World, e, d) : e, d \in {"ok", "fail"} } :
           r.call.ret = "raised" }
    \cup { UnloadModels(World), StartListening(World), StopListening(World) }
    \cup { AddListener(World, l) : l \in ListenerIds }
    \cup { RemoveListener(World, l) : l \in ListenerIds }

\* C10: update_config to another engine kind while model_loaded is true
\* unloads the old engine, leaves the new kind's engine constructed and not
\* loaded, and clears model_loaded; while model_loaded is false every
\* process_audio call is a no-op, and no call other than a load_models that
\* succeeds sets it.
C10_EngineSwap ==
    /\ \A c \in Configs :
          (st.model_loaded /\ c.engine # config.engine) =>
              LET r == UpdateConfig(World, c)
              IN  /\ engine # NoEngine => "engine" \in r.call.unloaded
                  /\ "engine" \in r.call.created
                  /\ r.w.engine = CreateEngine(c.engine)
                  /\ ~r.w.engine.is_loaded
                  /\ ~r.w.st.model_loaded
    /\ ~st.model_loaded =>
          /\ \A r \in AudioCalls : r.w = World /\ r.call.ret = None
          /\ \A r \in OtherCalls : ~r.w.st.model_loaded

\* C10 witness: after a swap the new engine is constructed and not loaded
\* while the detector loaded earlier still is, and model_loaded is false.
C10_Witness ==
    /\ st.enabled
    /\ ~st.model_loaded
    /\ engine = CreateEngine(config.engine)
    /\ detector.is_loaded
    /\ st.last_transcript # ""

RECURSIVE Without(_, _)
\* The sequence s without its elements in the set drop.
Without(s, drop) ==
    IF s = <<>> THEN s
    ELSE IF s[1] \in drop THEN Without(Tail(s), drop)
         ELSE <<s[1]>> \o Without(Tail(s), drop)

\* C11: whenever a process_audio call emits a TranscriptionEvent, whichever
\* of the registered listeners raise, the listeners that do not raise are
\* called in registration order, each as often as it is registered, and the
\* coordinator ends as if none had raised: AudioState Idle, last_transcript
\* the transcribed text, error as it was, nothing raised to the caller.
C11_ListenerIsolation ==
    \A chunk \in Chunks, env \in FanOutEnvs :
        LET r     == ProcessAudio(World, chunk, env)
            calm  == ProcessAudio(World, chunk, [env EXCEPT !.raisers = {}])
        IN  (IsReady(World) /\ r.call.event # NoEvent) =>
                /\ Without(r.call.notified, env.raisers) = Without(st.listeners, env.raisers)
                /\ r.w = calm.w
                /\ r.call.ret = calm.call.ret
                /\ r.call.raisedIn = None
                /\ r.w.ap.state = "idle"
                /\ r.w.st.last_transcript = env.transcribe.text
                /\ r.w.st.error = st.error

\* C11 witness: two listeners are registered, the first raises, and the
\* frame that completes the utterance still reaches the second.
C11_Witness ==
    /\ IsReady(World)
    /\ st.listeners = <<"a", "b">>
    /\ \E chunk \in Chunks, env \in FanOutEnvs :
          LET r == ProcessAudio(World, chunk, env)
          IN  /\ env.raisers = {"a"}
              /\ r.call.event # NoEvent
              /\ r.call.notified = <<"a", "b">>

\* C12: update_config puts the new wake-word threshold into the live
\* detector and the new timeouts into the AudioProcessor: afterwards the
\* silence count that ends an utterance and the sample count that caps it,
\* the quantities process_chunk compares against, are those of the new
\* configuration.
C12_ConfigPropagates ==
    \A c \in CaptureConfigs :
        LET r == UpdateConfig(World, c).w
        IN  /\ r.detector # NoDetector => r.detector.threshold = c.wake_word_threshold
            /\ r.ap.silence_threshold = IntSamples(SampleRate, c.silence_timeout_seconds)
            /\ r.ap.max_samples = IntSamples(SampleRate, c.max_duration_seconds)
            /\ r.ap.maxlen = IntSamples(SampleRate, c.max_duration_seconds)

\* The outcomes of loading a component.
LoadOutcomes == {"ok", "fail"}

\* C13: a load_models call raises exactly when loading an existing engine or
\* detector raises; then the error text is recorded, model_loaded is false
\* and process_audio is a no-op; otherwise model_loaded is true and the
\* error is cleared.  While model_loaded is false no call other than a
\* load_models that succeeds sets it.
C13_LoadOutcome ==
    /\ \A e \in LoadOutcomes, d \in LoadOutcomes :
          LET r == LoadModels(World, e, d)
              fails == \/ engine # NoEngine /\ e = "fail"
                       \/ detector # NoDetector /\ d = "fail"
          IN  /\ (r.call.ret = "raised") = fails
              /\ fails =>
                    /\ r.w.st.error = ErrLoad
                    /\ ~r.w.st.model_loaded
                    /\ \A chunk \in Chunks, env \in Envs :
                          LET a == ProcessAudio(r.w, chunk, env)
                          IN  a.w = r.w /\ a.call.ret = None
              /\ ~fails => r.w.st.model_loaded /\ r.w.st.error = None
    /\ ~st.model_loaded => \A r \in OtherCalls : ~r.w.st.model_loaded

\* C13 witness: models that were loaded and in use, then a load_models call
\* that failed: the error is recorded and model_loaded is false.
C13_Witness ==
    /\ st.error = ErrLoad
    /\ ~st.model_loaded
    /\ engine.is_loaded
    /\ st.last_transcript # ""

\* wake_word_threshold values outside [0, 1], in hundredths.
InvalidThresholds == {-10, 150}

\* C14: update_config with a wake-word threshold outside [0, 1] reports an
\* error and leaves the config, the engine and detector, the AudioProcessor
\* and the runtime state as they were.
C14_InvalidRejected ==
    \A c \in Configs, th \in InvalidThresholds :
        LET r == UpdateConfig(World, [c EXCEPT !.wake_word_threshold = th])
        IN  r.call.ret = "raised" /\ r.w = World

\* C16: in the timing scenario the processor is Listening after every chunk
\* up to and including the 74th quiet one and Processing after the 75th.
C16_SilentChunk75 ==
    LET k      == ChunksFed(ap)
        silent == k - ScenarioSpeechChunks
    IN  /\ (k >= 1 /\ silent <= 74) => ap.state = "listening"
        /\ silent = 75 => ap.state = "processing"

\* The audio thread is at a point of process_audio that reads or writes
\* coordinator state; the control thread likewise, in its call.
AudioAccesses == threads.audio.pc \in {"check", "body", "transcribe", "fanout"}

ControlAccesses == threads.control.pc \in {"mid", "unlocked"}

\* C15: a public call accesses coordinator state only while its thread
\* holds the manager lock, so the two threads are never both at such an
\* access.
C15_AccessUnderLock ==
    /\ AudioAccesses => threads.lock = "audio"
    /\ ControlAccesses => threads.lock = "control"
    /\ ~(AudioAccesses /\ ControlAccesses)

\* C17: whenever process_audio is about to run the wake gate, advance the
\* AudioProcessor or transcribe, enabled and model_loaded are both true.
C17_WorksOnlyWhenReady ==
    threads.audio.pc \in {"body", "transcribe"} => st.enabled /\ st.model_loaded

\* C18: when a fan-out has ended, every listener that was registered once
\* when it started, and was itself neither removed nor added again during
\* it, has been called exactly once.
C18_FanOutComplete ==
    threads.audio.pc = "done" =>
        \A l \in FanOutIds :
            (CountOf(threads.audio.registered, l) = 1 /\ l \notin threads.audio.changed) =>
                CountOf(threads.audio.called, l) = 1

\* C19: what get_status reports while an update_config call is in progress
\* is what it reported before the call or what it reports after it.
C19_StatusWhole ==
    threads.control.pc = "mid" =>
        StatusTuple(World) \in
            { threads.control.before,
              StatusTuple(UpdateConfigRest(World, threads.control.new_config,
                                           threads.control.engine_changed,
                                           threads.control.wake_word_changed)) }

\* C20: once a listener has called update_config, load_models,
\* unload_models, start_listening, stop_listening or process_audio from its
\* callback, the audio thread is blocked for good with the lock held, so no
\* later call that needs the lock gets it.
C20_ReentryBlocks ==
    threads.audio.reentered =>
        /\ threads.audio.pc = "stuck"
        /\ threads.lock = "audio"

\* A transcription is in flight: process_chunk has returned PROCESSING and
\* _transcribe_utterance has not yet run its finally block.
InFlight == threads.audio.pc \in {"transcribe", "fanout"}

\* C21: while a transcription is in flight the audio thread holds the lock;
\* no step unloads or replaces the engine or the detector, changes the
\* configuration or the two flags, or touches the AudioProcessor other than
\* the transcription's own reset on its way out, and a control call to
\* update_config, load_models, unload_models, start_listening or
\* stop_listening stays where it is.
C21_InFlightUndisturbed ==
    [][ InFlight =>
          /\ threads.lock = "audio"
          /\ engine' = engine
          /\ detector' = detector
          /\ config' = config
          /\ st'.enabled = st.enabled
          /\ st'.model_loaded = st.model_loaded
          /\ ap' # ap => /\ ap' = OnTranscriptionComplete(ap)
                         /\ threads'.audio.pc \in {"out", "done"}
          /\ threads.control.op \in LockedOps => threads'.control = threads.control ]_vars

\* C21 witness: the listener loop of a transcription is running on a loaded
\* engine while the control thread waits at the lock in unload_models.
C21_Witness ==
    /\ threads.audio.pc = "fanout"
    /\ threads.audio.called # <<>>
    /\ engine.is_loaded
    /\ ap.state = "processing"
    /\ threads.control.pc = "wait"
    /\ threads.control.op = "unload_models"

\* The results of every call other than process_audio that can be made now.
ControlCalls ==
    { UpdateConfig(World, c) : c \in Configs }
    \cup { LoadModels(World, e, d) : e, d \in {"ok", "fail"} }
    \cup { UnloadModels(World), StartListening(World), StopListening(World) }
    \cup { AddListener(World, l) : l \in ListenerIds }
    \cup { RemoveListener(World, l) : l \in ListenerIds }

\* C22: a process_audio call asks the wake-word detector for a detection
\* only when the AudioState is Idle as the call begins; from WakeDetected,
\* Listening and Processing no frame is scored, and no other call scores one.
C22_ScoredOnlyFromIdle ==
    /\ \A r \in AudioCalls : r.call.scored => ap.state = "idle"
    /\ \A r \in ControlCalls : ~r.call.scored

\* C22 witness: a capture is in progress on a ready pipeline whose detector
\* is loaded and enabled, and the next frame is processed without being
\* scored.
C22_Witness ==
    /\ IsReady(World)
    /\ ap.state = "listening"
    /\ config.wake_word_enabled
    /\ detector # NoDetector
    /\ detector.is_loaded
    /\ \E r \in AudioCalls : r.call.ready /\ ~r.call.scored /\ r.w.ap.buffer # ap.buffer

\* C23: the buffer is non-empty only while the AudioState is Listening or
\* Processing, and start_listening called during a capture on a ready
\* pipeline leaves the state WakeDetected with the buffer empty and both
\* counters zero.
C23_BufferOnlyWhileCapturing ==
    /\ ap.buffer # <<>> => ap.state \in {"listening", "processing"}
    /\ (IsReady(World) /\ ap.state = "listening") =>
          LET a == StartListening(World).w.ap
          IN  /\ a.state = "wake_detected"
              /\ a.buffer = <<>>
              /\ a.silence_samples = 0
              /\ a.speech_samples = 0

\* C24: no process_audio, start_listening, stop_listening or update_config
\* call returns with the AudioState WakeDetected, and get_status, called
\* between calls, never reports it.
C24_WakeDetectedTransient ==
    /\ GetStatus(World).state # "wake_detected"
    /\ \A r \in AudioCalls : r.w.ap.state # "wake_detected"
    /\ \A c \in Configs : UpdateConfig(World, c).w.ap.state # "wake_detected"
    /\ StartListening(World).w.ap.state # "wake_detected"
    /\ StopListening(World).w.ap.state # "wake_detected"

\* C25: process_chunk called in Idle or in Processing returns the
\* AudioProcessor as it was: buffer, silence and speech counters and state
\* unchanged, and the state it reports is that state.
C25_FrameDiscarded ==
    \A chunk \in Chunks :
        ap.state \in {"idle", "processing"} =>
            LET a == ProcessChunk(ap, chunk)
            IN  /\ a.buffer = ap.buffer
                /\ a.silence_samples = ap.silence_samples
                /\ a.speech_samples = ap.speech_samples
                /\ a.state = ap.state
                /\ a = ap

\* C25 witness: the processor sits in Processing with an utterance buffered
\* and counted, and a further frame leaves all of it alone.
C25_Witness ==
    /\ ap.state = "processing"
    /\ ap.buffer # <<>>
    /\ ap.speech_samples > 0
    /\ ap.silence_samples > 0
    /\ \A chunk \in Chunks : ProcessChunk(ap, chunk) = ap

\* C26: when the engine's transcribe raises inside a process_audio call, the
\* call returns nothing and raises nothing, the error text is recorded, no
\* listener is called and no event built, last_transcript, enabled and
\* model_loaded are as before, the AudioProcessor is at rest in Idle, and the
\* pipeline is ready for the next frame.
C26_TranscribeFailure ==
    \A chunk \in Chunks, env \in Envs :
        LET r == ProcessAudio(World, chunk, env)
        IN  r.call.raisedIn = "engine" =>
                /\ r.call.ret = None
                /\ r.w.st.error \in {ErrTranscribe, ErrNotLoaded}
                /\ r.call.notified = <<>>
                /\ r.call.event = NoEvent
                /\ r.w.st.last_transcript = st.last_transcript
                /\ AtRest(r.w.ap)
                /\ r.w.st.enabled = st.enabled
                /\ r.w.st.model_loaded = st.model_loaded
                /\ r.w.engine = engine
                /\ \A next \in Chunks : ProcessAudio(r.w, next, env).call.ready

\* C26 witness: a ready pipeline with a listener and an earlier transcript
\* is capturing, and the backend raises on the frame that completes the
\* utterance.
C26_Witness ==
    /\ IsReady(World)
    /\ ap.state = "listening"
    /\ st.listeners # <<>>
    /\ st.last_transcript = "hi"
    /\ st.error = None
    /\ \E r \in AudioCalls :
          /\ r.call.raisedIn = "engine"
          /\ r.call.transcribed
          /\ r.w.st.error = ErrTranscribe

\* C27: on a ready pipeline whose AudioState is Idle, the process_audio call
\* that follows start_listening does not ask the wake-word detector, takes
\* the state WakeDetected->Listening and ends in Listening with its frame
\* buffered (its most recent samples, as many as the capacity admits) and
\* counted as speech; on a pipeline that is not ready start_listening leaves
\* the AudioState, and everything else, as it was.
C27_ManualStart ==
    LET started == StartListening(World)
    IN  /\ (IsReady(World) /\ ap.state = "idle") =>
              \A chunk \in Chunks, env \in Envs :
                  LET r     == ProcessAudio(started.w, chunk, env)
                      frame == FrameSamples(<<>>, chunk.n)
                      keep  == IF chunk.n <= ap.maxlen THEN chunk.n ELSE ap.maxlen
                  IN  /\ r.call.ready
                      /\ ~r.call.scored
                      /\ r.call.trace = <<"wake_detected", "listening">>
                      /\ r.call.ret = None
                      /\ r.w.ap.state = "listening"
                      /\ r.w.ap.buffer = SubSeq(frame, chunk.n - keep + 1, chunk.n)
                      /\ r.w.ap.buffer # <<>>
                      /\ r.w.ap.speech_samples = chunk.n
                      /\ r.w.ap.silence_samples = 0
        /\ ~IsReady(World) =>
              /\ started.w.ap.state = ap.state
              /\ started.w = World

\* C27 witness: a ready, idle pipeline with a loaded detector and wake-word
\* detection enabled; after start_listening a frame the detector would have
\* scored below the threshold is captured.
C27_Witness ==
    /\ IsReady(World)
    /\ ap.state = "idle"
    /\ config.wake_word_enabled
    /\ detector # NoDetector
    /\ detector.is_loaded
    /\ \E chunk \in Chunks, env \in Envs :
          LET r == ProcessAudio(StartListening(World).w, chunk, env)
          IN  /\ ~env.predict.raise
              /\ env.predict.scores[1].score < detector.threshold
              /\ ProcessAudio(World, chunk, env).w.ap.state = "idle"
              /\ r.w.ap.state = "listening"
              /\ Len(r.w.ap.buffer) = chunk.n

\* The handles and orphans after the component events of update_config(c).
AfterEvents(c) ==
    ReplayEvents([engine |-> engine, detector |-> detector, orphans |-> {}],
                 ComponentEvents(World, c), c)

\* C28: in every update_config call, an engine or detector instance that
\* loses its handle, by replacement or by clearing, has had unload_model
\* called on it before, so none is left loaded without a handle and at most
\* one instance of each is loaded; the handles the events leave are the
\* engine and detector the call leaves.
C28_OneLiveInstance ==
    \A c \in Configs :
        LET r      == UpdateConfig(World, c)
            events == ComponentEvents(World, c)
            h      == AfterEvents(c)
        IN  /\ \A o \in h.orphans : ~o.is_loaded
            /\ h.engine = r.w.engine
            /\ h.detector = NoDetector => r.w.detector = NoDetector
            /\ h.detector # NoDetector =>
                  r.w.detector = [h.detector EXCEPT !.threshold = c.wake_word_threshold]
            /\ r.call.unloaded =
                  {events[i].kind : i \in {j \in 1..Len(events) : events[j].op = "unload_model"}}
            /\ r.call.created =
                  {events[i].kind : i \in {j \in 1..Len(events) : events[j].op = "create"}}

\* C28 witness: a loaded engine and a loaded detector, and an update_config
\* that replaces the one and drops the other: both lose their handle.
C28_Witness ==
    /\ engine # NoEngine
    /\ engine.is_loaded
    /\ detector # NoDetector
    /\ detector.is_loaded
    /\ \E c \in Configs :
          /\ c.engine # config.engine
          /\ ~c.wake_word_enabled
          /\ AfterEvents(c).orphans =
                 {[kind |-> "engine", is_loaded |-> FALSE],
                  [kind |-> "detector", is_loaded |-> FALSE]}

\* The most recent keep of total samples, in arrival order.
MostRecent(total, keep) == [i \in 1..keep |-> total - keep + i]

\* C29: the buffer never holds more than capacity = int(sample_rate *
\* max_duration_seconds) samples of the configuration in force, and after
\* process_chunk has taken a frame during a capture the buffer, which is the
\* utterance get_utterance hands to the engine, is the most recent capacity
\* samples in arrival order, or all of them while fewer have arrived.
C29_BufferBounded ==
    LET capacity == IntSamples(SampleRate, config.max_duration_seconds)
    IN  /\ Len(ap.buffer) <= capacity
        /\ \A chunk \in Chunks :
              ap.state \in {"wake_detected", "listening"} =>
                  LET a     == ProcessChunk(ap, chunk)
                      total == (IF ap.state = "listening" /\ ap.buffer # <<>>
                                THEN Last(ap.buffer) ELSE 0) + chunk.n
                      keep  == IF total <= capacity THEN total ELSE capacity
                  IN  /\ Len(a.buffer) <= capacity
                      /\ GetUtterance(a) = MostRecent(total, keep)

\* The counters after process_chunk has taken one more frame are those the
\* frame's classification asks for: the frame that starts the capture
\* counts as speech and leaves no silence; during the capture a speech
\* frame adds its length to the speech counter and zeroes the silence
\* counter, a non-speech frame adds its length to the silence counter.
CountersFollow(a, chunk) ==
    LET after == ProcessChunk(a, chunk)
    IN  /\ a.state = "wake_detected" =>
              after.speech_samples = chunk.n /\ after.silence_samples = 0
        /\ (a.state = "listening" /\ IsSpeech(a, chunk)) =>
              /\ after.speech_samples = a.speech_samples + chunk.n
              /\ after.silence_samples = 0
        /\ (a.state = "listening" /\ ~IsSpeech(a, chunk)) =>
              /\ after.speech_samples = a.speech_samples
              /\ after.silence_samples = a.silence_samples + chunk.n

\* C30: frame by frame the silence counter is the length of the trailing
\* run of non-speech frames and the speech counter the length of the
\* triggering frame and of the speech frames since; and a capture that ends
\* with the capacity not reached ends on a non-speech run of at least the
\* silence threshold, int(sample_rate * silence_timeout_seconds) of the
\* configuration in force.
C30_SilenceRun ==
    \A chunk \in Chunks :
        LET after == ProcessChunk(ap, chunk)
        IN  /\ CountersFollow(ap, chunk)
            /\ ( /\ ap.state = "listening"
                 /\ after.state = "processing"
                 /\ Len(after.buffer) < after.max_samples ) =>
                    /\ ~IsSpeech(ap, chunk)
                    /\ after.silence_samples >=
                           IntSamples(SampleRate, config.silence_timeout_seconds)

RECURSIVE LeavesWithin(_, _, _)
\* However the frames are classified, process_chunk fed frames of n samples
\* takes a out of LISTENING within k frames.
LeavesWithin(a, n, k) ==
    \/ a.state # "listening"
    \/ /\ k > 0
       /\ \A chunk \in {c \in Chunks : c.n = n} :
             LeavesWithin(ProcessChunk(a, chunk), n, k - 1)

\* C31: from Listening, frames of n samples take the state out of Listening
\* within ceil(capacity / n) frames whatever their classification, capacity
\* being int(sample_rate * max_duration_seconds) of the configuration in
\* force; and the process_audio call that takes the state out of Listening
\* returns with the state Idle.
C31_CaptureTerminates ==
    LET capacity == IntSamples(SampleRate, config.max_duration_seconds)
    IN  /\ \A n \in ChunkLens :
              ap.state = "listening" => LeavesWithin(ap, n, CeilDiv(capacity, n))
        /\ \A r \in AudioCalls :
              ( /\ IsReady(World)
                /\ r.call.ret # "raised"
                /\ HasStep(r.call.trace, "listening", "processing") ) =>
                    r.w.ap.state = "idle"

\* A chunk no longer than one VAD frame that carries speech: when it fills
\* a frame the classifier says so, when it is shorter it is loud.
ShortSpeech(chunk) ==
    /\ chunk.n <= VadFrameSize
    /\ IF NumVadFrames(chunk.n) = 0 THEN chunk.amp > EnergyThreshold
       ELSE chunk.vad = <<"speech">>

\* C32: with the WebRTC VAD available, is_speech is true exactly when more
\* than half of the chunk's frames are classified speech, and a chunk not
\* longer than one frame that carries speech is classified speech.
C32_MajorityRule ==
    \A chunk \in Chunks :
        ap.vad =>
            /\ NumVadFrames(chunk.n) > 0 =>
                  (IsSpeech(ap, chunk) <=>
                      2 * CountOf(chunk.vad, "speech") > NumVadFrames(chunk.n))
            /\ ShortSpeech(chunk) => IsSpeech(ap, chunk)

\* The positions of the scores that reach the detector's threshold.
Qualifying(det, predict) ==
    { i \in 1..Len(predict.scores) : predict.scores[i].score >= det.threshold }

C34_LoadedMeansLoaded ==
    st.model_loaded =>
        /\ engine # NoEngine
        /\ engine.is_loaded
        /\ config.wake_word_enabled => (detector # NoDetector /\ detector.is_loaded)

\* C35: whenever config.wake_word_enabled is true, a process_audio call
\* takes the AudioState out of Idle only if the detector exists, was asked
\* about the frame and reported a trigger.
C35_GateNotBypassed ==
    \A chunk \in Chunks, env \in Envs :
        LET r == ProcessAudio(World, chunk, env)
        IN  ( /\ config.wake_word_enabled
              /\ ap.state = "idle"
              /\ r.w.ap.state # "idle" ) =>
                /\ detector # NoDetector
                /\ r.call.scored
                /\ IsWakeWordDetected(detector, env.predict).detected

\* C36: the runtime enabled flag is true only when config.enabled is true.
C36_EnabledFollowsConfig == st.enabled => config.enabled

\* The events of the process_audio calls on two successive frames from w.
EventsAfter(w) ==
    { ProcessAudio(ProcessAudio(w, c1, env).w, c2, env).call.event :
        c1 \in Chunks, c2 \in Chunks, env \in CaptureEnvs } \ {NoEvent}

\* C37: the TranscriptionEvent of an utterance started by start_listening,
\* stop_listening having ended whatever went before, has no wake word, and
\* so has the event of an utterance started from Idle with wake-word
\* detection disabled.
C37_EventNamesItsTrigger ==
    IsReady(World) =>
        /\ \A e \in EventsAfter(StartListening(StopListening(World).w).w) :
              e.wake_word = None
        /\ (ap.state = "idle" /\ ~config.wake_word_enabled) =>
              \A e \in EventsAfter(World) : e.wake_word = None

\* C38: when the pipeline is not ready after unload_models or update_config
\* the AudioState is Idle and the buffer is empty.
C38_NoPartialUtterance ==
    \A r \in {UnloadModels(World)} \cup {UpdateConfig(World, c) : c \in Configs} :
        ~IsReady(r.w) => (r.w.ap.state = "idle" /\ r.w.ap.buffer = <<>>)

\* C39: a ProfileStore holds at least one profile from its construction on,
\* through every create, update and delete; delete(id) answers false and
\* changes nothing when id is unknown or only one profile remains, and
\* otherwise removes exactly the profile id.
C39_StoreNeverEmpty ==
    /\ Len(store.profiles) >= 1
    /\ \A id \in ProfileIds :
          LET r == Delete(store, id)
          IN  IF ~HasId(store.profiles, id) \/ Len(store.profiles) <= 1
              THEN ~r.result /\ r.s = store
              ELSE /\ r.result
                   /\ r.s.profiles = SelectSeq(store.profiles, LAMBDA p : p.id # id)
                   /\ Len(r.s.profiles) = Len(store.profiles) - 1

====
